---- MODULE Spec2Model ----
(***************************************************************************)
(* NGNX.DATA.FileProxy (src/index.js): several proxy instances, possibly   *)
(* in different processes, configured with one target path.  The shared    *)
(* state is the file system: the files, the directories and the lock       *)
(* markers (<path>.lock) that proper-lockfile creates.  Every instance     *)
(* runs its synchronous methods one file-system operation at a time, so    *)
(* the steps of different instances interleave between file-system         *)
(* operations.  The lifecycle hooks and saveAndEmit are those of the copy   *)
(* of the class in src/unnamed/part_001.                                   *)
(***************************************************************************)
EXTENDS Integers, Sequences, FiniteSets, TLC

Inst == {"A", "B"}
NoInst == "none"

\* Paths are sequences of characters.
NoPath == <<>>
Root == <<"/">>
TargetPaths == { <<"/", "t", "/", "d">> }
Platforms == {"linux", "darwin", "win32"}

NoKey == "nokey"
Keys == {"k1"}
Texts == {"c1"}
InitialText == "c0"

\* File content: the text and the cipher layers applied to it, outermost first.
Plain(t) == [layers |-> <<>>, text |-> t]
NoContent == [layers |-> <<>>, text |-> "null"]

VARIABLES
  os,         \* require('os').platform()
  target,     \* config.file after path.resolve
  files,      \* file system: existing file path -> content
  dirs,       \* file system: existing directories
  hiddenAttr, \* file system: files carrying the hidden flag (darwin, win32)
  readonly,   \* file system: writeFileSync fails (no write permission, no space)
  mode,       \* file system: permission bits of the target file (st_mode & 07777)
  alive,      \* the process of each instance is running (refreshes its markers)
  age,        \* seconds since the markers of each instance were last refreshed
  lockfile,   \* lock markers: locked path -> instance that created <path>.lock
  dbfile,     \* this.dbfile
  munge,      \* this.munge
  cipher,     \* this.cipher
  autolock,   \* this._autolock
  hidelock,   \* this.hidelock
  release,    \* this._release: NoPath, or the path whose marker it removes
  lockowner,  \* this._lockowner
  pc,         \* position of each instance inside its current call
  call,       \* the call in progress of each instance
  done        \* the call that returned in the last step, if one did

vars == <<os, target, files, dirs, hiddenAttr, readonly, mode, alive, age, lockfile, dbfile,
          munge, cipher, autolock, hidelock, release, lockowner, pc, call, done>>

fsVars == <<files, dirs, hiddenAttr, lockfile>>
cfgVars == <<os, target, munge, cipher, autolock, hidelock, readonly, mode, alive, age>>

----------------------------------------------------------------------------
\* Path helpers (require('path')) and String.prototype.replace.

RECURSIVE LastSlash(_, _)
LastSlash(p, k) == IF k = 0 THEN 0 ELSE IF p[k] = "/" THEN k ELSE LastSlash(p, k - 1)

basename(p) == SubSeq(p, LastSlash(p, Len(p)) + 1, Len(p))

dirname(p) ==
  LET k == LastSlash(p, Len(p)) IN IF k <= 1 THEN Root ELSE SubSeq(p, 1, k - 1)

\* path.join(dir, '..')
ParentDir(dir) == dirname(dir)

RECURSIVE IndexOf(_, _, _)
IndexOf(s, pat, k) ==
  IF k + Len(pat) - 1 > Len(s) THEN 0
  ELSE IF SubSeq(s, k, k + Len(pat) - 1) = pat THEN k
  ELSE IndexOf(s, pat, k + 1)

\* s.replace(pat, rep): replaces the first occurrence of pat in s.
replace(s, pat, rep) ==
  LET k == IndexOf(s, pat, 1) IN
  IF k = 0 THEN s
  ELSE SubSeq(s, 1, k - 1) \o rep \o SubSeq(s, k + Len(pat), Len(s))

\* Permission bits: three octal digits for owner, group and others (4 read,
\* 2 write, 1 execute) below the digit of setuid, setgid and sticky.
Mode(owner, group, other) == owner * 64 + group * 8 + other
Special(m) == (m \div 512) % 8
Owner(m) == (m \div 64) % 8
Group(m) == (m \div 8) % 8
Other(m) == m % 8

\* NGN.util.pathReadable
pathReadable(p) == p \in DOMAIN files \/ p \in dirs

RECURSIVE mkdirp(_, _)
mkdirp(ds, dir) ==
  IF dir \in ds THEN ds
  ELSE IF ParentDir(dir) \in ds THEN ds \cup {dir}
  ELSE mkdirp(mkdirp(ds, ParentDir(dir)), dir)

WriteFile(fs, p, c) == [q \in DOMAIN fs \cup {p} |-> IF q = p THEN c ELSE fs[q]]
RenameFile(fs, p, q) == [r \in (DOMAIN fs \ {p}) \cup {q} |-> IF r = q THEN fs[p] ELSE fs[r]]
RemoveLock(lf, p) == [q \in DOMAIN lf \ {p} |-> lf[q]]
AddLock(lf, p, i) == [q \in DOMAIN lf \cup {p} |-> IF q = p THEN i ELSE lf[q]]

----------------------------------------------------------------------------
\* encrypt / decrypt

encrypt(i, data) == [layers |-> <<munge[i]>> \o data.layers, text |-> data.text]

CanDecrypt(i, data) == data.layers # <<>> /\ Head(data.layers) = munge[i]

decrypt(i, data) == [layers |-> Tail(data.layers), text |-> data.text]

----------------------------------------------------------------------------
\* encrypt / decrypt on the text itself.  A text is a sequence of code points, a
\* buffer a sequence of bytes, a hex string a sequence of hex digits (0..15).
\* createCipher(cipher, password) derives key and iv from the password: the
\* cipher here is a chained byte cipher with PKCS padding to the block size of
\* the named cipher, its key byte and first chaining byte taken from the password.

DefaultCipher == "aes-256-cbc"
Ciphers == {"aes-256-cbc", "des-ede3-cbc"}
CipherKeys == Keys \cup {"k2"}

\* The characters of the texts: "a", e-acute and the euro sign (1, 2, 3 bytes of utf8).
Chars == {97, 233, 8364}
MaxTextLen == 3

RECURSIVE SeqsUpTo(_, _)
SeqsUpTo(S, n) ==
  IF n = 0 THEN {<< >>}
  ELSE LET shorter == SeqsUpTo(S, n - 1) IN
       shorter \cup {Append(t, x) : t \in shorter, x \in S}

TextInputs == SeqsUpTo(Chars, MaxTextLen)

BlockSize(name) == CASE name = "aes-256-cbc" -> 16 [] name = "des-ede3-cbc" -> 8
KeyByte(password, name) ==
  (CASE password = "k1" -> 37 [] OTHER -> 101) + BlockSize(name)
IvByte(password, name) ==
  (CASE password = "k1" -> 5 [] OTHER -> 90) + BlockSize(name)

\* input encoding 'utf8'
Utf8(cp) ==
  IF cp < 128 THEN <<cp>>
  ELSE IF cp < 2048 THEN <<192 + (cp \div 64), 128 + (cp % 64)>>
  ELSE <<224 + (cp \div 4096), 128 + ((cp \div 64) % 64), 128 + (cp % 64)>>

RECURSIVE Utf8Encode(_)
Utf8Encode(text) ==
  IF text = << >> THEN << >> ELSE Utf8(Head(text)) \o Utf8Encode(Tail(text))

\* output encoding 'utf8': bytes that are no character give U+FFFD
RECURSIVE Utf8Decode(_)
Utf8Decode(b) ==
  IF b = << >> THEN << >>
  ELSE IF b[1] < 128 THEN <<b[1]>> \o Utf8Decode(Tail(b))
  ELSE IF b[1] \in 192..223 /\ Len(b) >= 2 /\ b[2] \in 128..191
  THEN <<(b[1] - 192) * 64 + (b[2] - 128)>> \o Utf8Decode(SubSeq(b, 3, Len(b)))
  ELSE IF b[1] \in 224..239 /\ Len(b) >= 3 /\ b[2] \in 128..191 /\ b[3] \in 128..191
  THEN <<(b[1] - 224) * 4096 + (b[2] - 128) * 64 + (b[3] - 128)>>
       \o Utf8Decode(SubSeq(b, 4, Len(b)))
  ELSE <<65533>> \o Utf8Decode(Tail(b))

\* output encoding 'hex'
RECURSIVE Hex(_)
Hex(b) ==
  IF b = << >> THEN << >> ELSE <<Head(b) \div 16, Head(b) % 16>> \o Hex(Tail(b))

\* input encoding 'hex': two digits a byte, a last single digit is dropped
RECURSIVE Unhex(_)
Unhex(d) ==
  IF Len(d) < 2 THEN << >>
  ELSE <<d[1] * 16 + d[2]>> \o Unhex(SubSeq(d, 3, Len(d)))

Pad(b, size) ==
  LET n == size - (Len(b) % size) IN b \o [k \in 1..n |-> n]

ValidPadding(b, size) ==
  /\ Len(b) > 0 /\ Len(b) % size = 0
  /\ LET n == b[Len(b)] IN
       n \in 1..size /\ \A k \in (Len(b) - n + 1)..Len(b) : b[k] = n

RECURSIVE Encipher(_, _, _)
Encipher(b, key, prev) ==
  IF b = << >> THEN << >>
  ELSE LET c == (Head(b) + key + prev) % 256 IN <<c>> \o Encipher(Tail(b), key, c)

RECURSIVE Decipher(_, _, _)
Decipher(c, key, prev) ==
  IF c = << >> THEN << >>
  ELSE <<(Head(c) + 512 - key - prev) % 256>> \o Decipher(Tail(c), key, Head(c))

\* An encrypt that leaves out cipher.final('hex').
encryptTextNoFinal(i, data) ==
  LET size == BlockSize(cipher[i])
      b == Utf8Encode(data)
      out == Encipher(Pad(b, size), KeyByte(munge[i], cipher[i]), IvByte(munge[i], cipher[i]))
  IN Hex(SubSeq(out, 1, size * (Len(b) \div size)))

\* encrypt (data): update returns the whole blocks of data, final the padded rest
encryptText(i, data) ==
  LET size == BlockSize(cipher[i])
      b == Utf8Encode(data)
      out == Encipher(Pad(b, size), KeyByte(munge[i], cipher[i]), IvByte(munge[i], cipher[i]))
      whole == size * (Len(b) \div size)
      encoded == Hex(SubSeq(out, 1, whole))
  IN encoded \o Hex(SubSeq(out, whole + 1, Len(out)))

\* decrypt (data): update keeps the last block back, final removes its padding
\* and throws when that is not valid.  The value is <<result, text>>.
decryptText(i, data) ==
  LET size == BlockSize(cipher[i])
      b == Decipher(Unhex(data), KeyByte(munge[i], cipher[i]), IvByte(munge[i], cipher[i]))
  IN IF ~ValidPadding(b, size) THEN <<"throw_decrypt", << >> >>
     ELSE LET decoded == SubSeq(b, 1, Len(b) - size)
              last == SubSeq(b, Len(b) - size + 1, Len(b) - b[Len(b)])
          IN <<"ok", Utf8Decode(decoded \o last)>>

----------------------------------------------------------------------------
\* Call records.

\* by: the instance; op, arg, flag: the method and its arguments; after: "lock"
\* when a lock() or unlock() starts right after a lock() of the same instance
\* returned having created the marker; fileBefore: the target file existed when
\* a lock() started; acquired: the call created a marker; events: what the call
\* did and emitted, in order; res, value: how it ended.  A readFromDisk that starts
\* right after a writeToDisk of the same instance returned has after = "write" and
\* the written content as arg; right after one of another instance, after =
\* "write_other".  param: the record argument of a lifecycle hook or
\* the value assigned to autolock; carried: what the intent notification of a
\* hook carried.
NoCall ==
  [by |-> NoInst, op |-> "none", arg |-> NoContent, flag |-> FALSE, after |-> "none",
   fileBefore |-> FALSE, acquired |-> FALSE, param |-> "none", carried |-> "none",
   events |-> <<>>, res |-> "none", value |-> NoContent]

\* The last step was the return of a writeToDisk of i.
JustWrote(i) == done.by = i /\ done.op = "writeToDisk" /\ done.res = "ok"

\* The last step was the return of a writeToDisk of another instance.
OtherJustWrote(i) ==
  done.by \in Inst \ {i} /\ done.op = "writeToDisk" /\ done.res = "ok"

NewCall(i, op, arg, flag) ==
  [NoCall EXCEPT !.by = i, !.op = op, !.flag = flag,
                 !.arg = IF op = "readFromDisk" /\ (JustWrote(i) \/ OtherJustWrote(i))
                         THEN done.arg ELSE arg,
                 !.after = IF op \in {"lock", "unlock"} /\ done.by = i
                              /\ done.op = "lock" /\ done.res = "ok" /\ done.acquired
                           THEN "lock"
                           ELSE IF op = "readFromDisk" /\ JustWrote(i) THEN "write"
                           ELSE IF op = "readFromDisk" /\ OtherJustWrote(i)
                           THEN "write_other"
                           ELSE "other",
                 !.fileBefore = (op = "lock" /\ dbfile[i] \in DOMAIN files)]

Count(s, e) == Cardinality({k \in 1..Len(s) : s[k] = e})

\* The call of i returns (res = "ok") or throws (res = "throw_...").
Return(i, c, res, val) ==
  /\ pc' = [pc EXCEPT ![i] = "idle"]
  /\ call' = [call EXCEPT ![i] = NoCall]
  /\ done' = [c EXCEPT !.res = res, !.value = val]

Goto(i, c, where) ==
  /\ pc' = [pc EXCEPT ![i] = where]
  /\ call' = [call EXCEPT ![i] = c]
  /\ done' = NoCall

\* The record of the call at this step: a new one when the step starts the call.
Cur(i, op, arg, flag) == IF pc[i] = "idle" THEN NewCall(i, op, arg, flag) ELSE call[i]

Starts(i) == pc[i] = "idle"

----------------------------------------------------------------------------
\* Staleness of markers, in seconds.  lock() passes stale: 5000 and update: 1000 to
\* lockSync; the locked getter passes no stale option to checkSync, which then
\* uses the default of proper-lockfile, 10000.
LockStale == 5
LockUpdate == 1
CheckStale == 10

\* isLockStale of proper-lockfile: mtime of the marker < Date.now() - stale
Stale(p, stale) == age[lockfile[p]] > stale

\* A locked getter that sees only the markers this instance created.
lockedOwnMarkerOnly(i) ==
  dbfile[i] \in DOMAIN lockfile /\ lockfile[dbfile[i]] = i /\ ~Stale(dbfile[i], CheckStale)

\* get locked (): filelocker.checkSync(this.dbfile, {realpath: false})
locked(i) == dbfile[i] \in DOMAIN lockfile /\ ~Stale(dbfile[i], CheckStale)

isLockOwner(i) == lockowner[i]


----------------------------------------------------------------------------
\* Continuations: where a method returns to.

Emit(c, e) == [c EXCEPT !.events = Append(@, e)]

\* postsave(callback), reached from the save flow after writeToDisk returned.
postsave(c) == Emit(Emit(Emit(c, "save"), "store.save"), "callback")

\* The lifecycle hooks the framework calls, and the event each passes to saveAndEmit.
Hooks ==
  {"createModelRecord", "updateModelRecord", "deleteModelRecord", "createStoreRecord",
   "updateStoreRecord", "deleteStoreRecord", "clearStoreRecords"}

eventName(h) ==
  CASE h \in {"createModelRecord", "createStoreRecord"} -> "live.create"
    [] h \in {"updateModelRecord", "updateStoreRecord"} -> "live.update"
    [] h \in {"deleteModelRecord", "deleteStoreRecord", "clearStoreRecords"} -> "live.delete"

\* this.store.emit(eventName, ...), as an entry of events
StoreEvent(e) ==
  CASE e = "live.create" -> "store.live.create"
    [] e = "live.update" -> "store.live.update"
    [] e = "live.delete" -> "store.live.delete"

\* What a hook may be called with: a record, or nothing.
Records == {"record", "undefined"}

\* A callback that notifies the proxy and not the store.
saveAndEmitProxyOnly(c) ==
  Emit([c EXCEPT !.carried = IF c.param = "undefined" THEN "null" ELSE c.param],
       eventName(c.op))

\* The callback saveAndEmit hands to save:
\* this.emit(eventName, record || null); this.store.emit(eventName, record || null)
saveAndEmit(c) ==
  Emit(Emit([c EXCEPT !.carried = IF c.param = "undefined" THEN "null" ELSE c.param],
            eventName(c.op)),
       StoreEvent(eventName(c.op)))

\* writeToDisk returns: to the caller, or to the save flow (then postsave, whose
\* callback is the one of saveAndEmit when a hook started the save).
WriteDone(i, c) ==
  IF c.op = "save" THEN Return(i, postsave(c), "ok", NoContent)
  ELSE IF c.op \in Hooks THEN Return(i, saveAndEmit(postsave(c)), "ok", NoContent)
  ELSE Return(i, c, "ok", NoContent)

\* unlock returns: to the caller, or to writeToDisk (its last statement).
UnlockDone(i, c) ==
  IF c.op = "unlock" THEN Return(i, c, "ok", NoContent) ELSE WriteDone(i, c)

\* lock returns: to the caller, or to writeToDisk (which goes on to write).
LockDone(i, c) ==
  IF c.op = "lock" THEN Return(i, c, "ok", NoContent) ELSE Goto(i, c, "w_write")

\* The save flow of an extending class: presave(), writeToDisk(content), postsave(cb).
SaveAfterPresave(i, c) == Goto(i, c, "w_check")

----------------------------------------------------------------------------
\* lock ()

\* if (this.locked) return
LockCheck(i) ==
  /\ Starts(i) \/ pc[i] = "l_check"
  /\ LET c == Cur(i, "lock", NoContent, FALSE) IN
       IF locked(i) THEN LockDone(i, c) ELSE Goto(i, c, "l_create")
  /\ UNCHANGED <<fsVars, cfgVars, dbfile, release, lockowner>>

\* this._release = this.filelocker.lockSync(this.dbfile, ...); this._lockowner = true
\* A lock() that goes on as if it had the lock when lockSync throws.
LockCreateSwallow(i) ==
  /\ pc[i] = "l_create"
  /\ IF \/ dbfile[i] \in DOMAIN lockfile /\ ~Stale(dbfile[i], LockStale)
        \/ dirname(dbfile[i]) \notin dirs
     THEN /\ LockDone(i, call[i])
          /\ UNCHANGED <<lockfile, release, lockowner>>
     ELSE /\ lockfile' = AddLock(lockfile, dbfile[i], i)
          /\ release' = [release EXCEPT ![i] = dbfile[i]]
          /\ lockowner' = [lockowner EXCEPT ![i] = TRUE]
          /\ LET c == [call[i] EXCEPT !.acquired = TRUE] IN
               IF hidelock[i] THEN Goto(i, c, "l_hide")
               ELSE LockDone(i, Emit(c, "filelock"))
  /\ UNCHANGED <<files, dirs, hiddenAttr, cfgVars, dbfile>>

\* lockSync makes the directory <dbfile>.lock: it throws when the marker exists
\* and is not stale (ELOCKED) and when the directory of dbfile does not exist
\* (ENOENT); a stale marker is replaced.
LockCreate(i) ==
  /\ pc[i] = "l_create"
  /\ IF \/ dbfile[i] \in DOMAIN lockfile /\ ~Stale(dbfile[i], LockStale)
        \/ dirname(dbfile[i]) \notin dirs
     THEN /\ Return(i, call[i], "throw_lock", NoContent)
          /\ UNCHANGED <<lockfile, release, lockowner>>
     ELSE /\ lockfile' = AddLock(lockfile, dbfile[i], i)
          /\ release' = [release EXCEPT ![i] = dbfile[i]]
          /\ lockowner' = [lockowner EXCEPT ![i] = TRUE]
          /\ LET c == [call[i] EXCEPT !.acquired = TRUE] IN
               IF hidelock[i] THEN Goto(i, c, "l_hide")
               ELSE LockDone(i, Emit(c, "filelock"))
  /\ UNCHANGED <<files, dirs, hiddenAttr, cfgVars, dbfile>>

\* hide (absolutePath), called with this.dbfile
\* The value is <<outcome, files', hiddenAttr', dbfile of i>>.
hide(i, absolutePath) ==
  IF ~pathReadable(absolutePath) THEN <<"warn", files, hiddenAttr, dbfile[i]>>
  ELSE IF os \in {"darwin", "win32"}
  THEN <<"hidden", files, hiddenAttr \cup {absolutePath}, dbfile[i]>>
  ELSE LET asset == basename(dbfile[i])
           newFilepath == replace(dbfile[i], asset, <<".">> \o asset)
       IN IF SubSeq(asset, 1, 1) = <<".">> THEN <<"skip", files, hiddenAttr, dbfile[i]>>
          ELSE IF dbfile[i] \notin DOMAIN files \/ dirname(newFilepath) \notin dirs
          THEN <<"throw", files, hiddenAttr, dbfile[i]>>
          ELSE <<"hidden", RenameFile(files, dbfile[i], newFilepath), hiddenAttr, newFilepath>>

\* if (this.hidelock) this.hide(this.dbfile); this.emit('filelock')
LockHide(i) ==
  /\ pc[i] = "l_hide"
  /\ LET h == hide(i, dbfile[i]) IN
       /\ files' = h[2]
       /\ hiddenAttr' = h[3]
       /\ dbfile' = [dbfile EXCEPT ![i] = h[4]]
       /\ IF h[1] = "throw" THEN Return(i, call[i], "throw_io", NoContent)
          ELSE LET c == IF h[1] = "hidden" THEN Emit(call[i], "hide") ELSE call[i] IN
               LockDone(i, Emit(c, "filelock"))
  /\ UNCHANGED <<dirs, lockfile, cfgVars, release, lockowner>>

\* hide (absolutePath), called on its own
HideCall(i, absolutePath) ==
  /\ Starts(i)
  /\ LET c == NewCall(i, "hide", NoContent, FALSE)
         h == hide(i, absolutePath) IN
       /\ files' = h[2]
       /\ hiddenAttr' = h[3]
       /\ dbfile' = [dbfile EXCEPT ![i] = h[4]]
       /\ IF h[1] = "throw" THEN Return(i, c, "throw_io", NoContent)
          ELSE Return(i, [c EXCEPT !.param = h[1]], "ok", NoContent)
  /\ UNCHANGED <<dirs, lockfile, cfgVars, release, lockowner>>

\* unhide (absolutePath): <<outcome, files, hiddenAttr, this.dbfile>>
unhide(i, absolutePath) ==
  IF ~pathReadable(absolutePath) THEN <<"warn", files, hiddenAttr, dbfile[i]>>
  ELSE IF os \in {"darwin", "win32"}
  THEN <<"shown", files, hiddenAttr \ {absolutePath}, dbfile[i]>>
  ELSE LET asset == basename(dbfile[i])
           newFilepath == replace(dbfile[i], asset, SubSeq(asset, 2, Len(asset)))
       IN IF SubSeq(asset, 1, 1) # <<".">> THEN <<"skip", files, hiddenAttr, dbfile[i]>>
          ELSE IF dbfile[i] \notin DOMAIN files \/ dirname(newFilepath) \notin dirs
          THEN <<"throw", files, hiddenAttr, dbfile[i]>>
          ELSE <<"shown", RenameFile(files, dbfile[i], newFilepath), hiddenAttr, newFilepath>>

UnhideCall(i, absolutePath) ==
  /\ Starts(i)
  /\ LET c == NewCall(i, "unhide", NoContent, FALSE)
         h == unhide(i, absolutePath) IN
       /\ files' = h[2]
       /\ hiddenAttr' = h[3]
       /\ dbfile' = [dbfile EXCEPT ![i] = h[4]]
       /\ IF h[1] = "throw" THEN Return(i, c, "throw_io", NoContent)
          ELSE Return(i, [c EXCEPT !.param = h[1]], "ok", NoContent)
  /\ UNCHANGED <<dirs, lockfile, cfgVars, release, lockowner>>

----------------------------------------------------------------------------
\* unlock ()

\* An unlock that removes the marker of its path whoever created it.
UnlockCheckAnyOwner(i) ==
  /\ Starts(i) \/ pc[i] = "u_check"
  /\ LET c == Cur(i, "unlock", NoContent, FALSE) IN
       IF ~locked(i) THEN UnlockDone(i, c) /\ UNCHANGED lockfile
       ELSE /\ lockfile' = RemoveLock(lockfile, dbfile[i])
            /\ UnlockDone(i, Emit(Emit(c, "release"), "fileunlock"))
  /\ release' = [release EXCEPT ![i] = NoPath]
  /\ UNCHANGED <<files, dirs, hiddenAttr, cfgVars, dbfile, lockowner>>

\* if (!this.locked) return; if (!this.isLockOwner) { warn; return }
\* if (this._release) ...; this._release = null
UnlockCheck(i) ==
  /\ Starts(i) \/ pc[i] = "u_check"
  /\ LET c == Cur(i, "unlock", NoContent, FALSE) IN
       IF ~locked(i) THEN UnlockDone(i, c)
       ELSE IF ~isLockOwner(i) THEN UnlockDone(i, Emit(c, "warn"))
       ELSE IF release[i] # NoPath THEN Goto(i, c, "u_release")
       ELSE UnlockDone(i, c)
  /\ UNCHANGED <<fsVars, cfgVars, dbfile, release, lockowner>>

\* this._release(() => { this.emit('fileunlock') }); this._release = null
UnlockRelease(i) ==
  /\ pc[i] = "u_release"
  /\ lockfile' = RemoveLock(lockfile, release[i])
  /\ release' = [release EXCEPT ![i] = NoPath]
  /\ UnlockDone(i, Emit(Emit(call[i], "release"), "fileunlock"))
  /\ UNCHANGED <<files, dirs, hiddenAttr, cfgVars, dbfile, lockowner>>

----------------------------------------------------------------------------
\* presave (), as the first step of a save

SavePresave(i, content) ==
  /\ Starts(i)
  /\ LET c == Cur(i, "save", content, TRUE) IN
       IF locked(i)
       THEN /\ Return(i, c, "throw_locked", NoContent)
            /\ UNCHANGED dirs
       ELSE /\ dirs' = mkdirp(dirs, dirname(dbfile[i]))
            /\ SaveAfterPresave(i, Emit(c, "presave"))
  /\ UNCHANGED <<files, hiddenAttr, lockfile, cfgVars, dbfile, release, lockowner>>

\* presave (), called by itself.  It has no return statement: its value is undefined.
Undefined == [layers |-> <<>>, text |-> "undefined"]
True == [layers |-> <<>>, text |-> "true"]

Presave(i) ==
  /\ Starts(i)
  /\ LET c == NewCall(i, "presave", NoContent, FALSE) IN
       IF locked(i)
       THEN /\ Return(i, c, "throw_locked", NoContent)
            /\ UNCHANGED dirs
       ELSE /\ dirs' = mkdirp(dirs, dirname(dbfile[i]))
            /\ Return(i, c, "ok", Undefined)
  /\ UNCHANGED <<files, hiddenAttr, lockfile, cfgVars, dbfile, release, lockowner>>

----------------------------------------------------------------------------
\* The lifecycle hooks: this.proxy.saveAndEmit(eventName).apply(this, arguments),
\* that is this.save(callback) with the callback of saveAndEmit.

\* save is the one of an extending class: presave(), writeToDisk(content), postsave(cb)
HookSave(i, h, record, content) ==
  /\ Starts(i)
  /\ LET c == Emit([NewCall(i, h, content, TRUE) EXCEPT !.param = record], "this.save") IN
       IF locked(i)
       THEN /\ Return(i, c, "throw_locked", NoContent)
            /\ UNCHANGED dirs
       ELSE /\ dirs' = mkdirp(dirs, dirname(dbfile[i]))
            /\ SaveAfterPresave(i, Emit(c, "presave"))
  /\ UNCHANGED <<files, hiddenAttr, lockfile, cfgVars, dbfile, release, lockowner>>

\* save is the one of FileProxy: it logs a message and drops the callback
HookSaveStub(i, h, record) ==
  /\ Starts(i)
  /\ LET c == Emit([NewCall(i, h, NoContent, TRUE) EXCEPT !.param = record], "this.save") IN
       Return(i, c, "ok", Undefined)
  /\ UNCHANGED <<fsVars, cfgVars, dbfile, release, lockowner>>

----------------------------------------------------------------------------
\* encrypt (data) and decrypt (data), called by themselves

EncryptCall(i, data) ==
  /\ Starts(i)
  /\ Return(i, NewCall(i, "encrypt", Plain(data), FALSE), "ok", Plain(encryptText(i, data)))
  /\ UNCHANGED <<fsVars, cfgVars, dbfile, release, lockowner>>

DecryptCall(i, data) ==
  /\ Starts(i)
  /\ LET r == decryptText(i, data) IN
       Return(i, NewCall(i, "decrypt", Plain(data), FALSE), r[1], Plain(r[2]))
  /\ UNCHANGED <<fsVars, cfgVars, dbfile, release, lockowner>>

----------------------------------------------------------------------------
\* set autolock (value)

\* What is assigned: a boolean ("true", "false") or something else.
AutolockValues == {"true", "false", "string"}

\* if (typeof value !== 'boolean') { console.warn(...); return }
\* this._autolock = value: _autolock is defined with NGN.privateconst, a property
\* that is not writable, and the class body is strict code, so the assignment
\* throws a TypeError.
SetAutolock(i, value) ==
  /\ Starts(i)
  /\ LET c == [NewCall(i, "set autolock", NoContent, FALSE) EXCEPT !.param = value] IN
       IF value \notin {"true", "false"} THEN Return(i, Emit(c, "warn"), "ok", Undefined)
       ELSE Return(i, c, "throw_type", NoContent)
  /\ UNCHANGED <<fsVars, cfgVars, dbfile, release, lockowner>>

----------------------------------------------------------------------------
\* writeToDisk (content, encryptdata = true), called with the default encryptdata

\* A writeToDisk that takes the lock whatever autolock says.
WriteCheckAlwaysLock(i, content) ==
  /\ Starts(i) \/ pc[i] = "w_check"
  /\ LET c == Cur(i, "writeToDisk", content, TRUE) IN
       IF ~locked(i) THEN Goto(i, c, "l_check")
       ELSE Goto(i, c, "w_write")
  /\ UNCHANGED <<fsVars, cfgVars, dbfile, release, lockowner>>

\* if (this._autolock && !this.locked) this.lock()
WriteCheck(i, content) ==
  /\ Starts(i) \/ pc[i] = "w_check"
  /\ LET c == Cur(i, "writeToDisk", content, TRUE) IN
       IF autolock[i] /\ ~locked(i) THEN Goto(i, c, "l_check")
       ELSE Goto(i, c, "w_write")
  /\ UNCHANGED <<fsVars, cfgVars, dbfile, release, lockowner>>

\* A writeToDisk that writes the content as it was given.
WriteFileSyncPlain(i) ==
  /\ pc[i] = "w_write"
  /\ IF readonly \/ dirname(dbfile[i]) \notin dirs
     THEN /\ Return(i, call[i], "throw_io", NoContent)
          /\ UNCHANGED files
     ELSE /\ files' = WriteFile(files, dbfile[i], call[i].arg)
          /\ Goto(i, Emit(call[i], "write"), "w_post")
  /\ UNCHANGED <<dirs, hiddenAttr, lockfile, cfgVars, dbfile, release, lockowner>>

\* if (encryptdata && this.munge) content = this.encrypt(content)
\* require('fs').writeFileSync(this.dbfile, content, {encoding: 'utf8'})
WriteFileSync(i) ==
  /\ pc[i] = "w_write"
  /\ LET c == call[i]
         content == IF c.flag /\ munge[i] # NoKey THEN encrypt(i, c.arg) ELSE c.arg
     IN IF readonly \/ dirname(dbfile[i]) \notin dirs
        THEN /\ Return(i, c, "throw_io", NoContent)
             /\ UNCHANGED files
        ELSE /\ files' = WriteFile(files, dbfile[i], content)
             /\ Goto(i, Emit(c, "write"), "w_post")
  /\ UNCHANGED <<dirs, hiddenAttr, lockfile, cfgVars, dbfile, release, lockowner>>

\* if (this._autolock && this.locked) this.unlock()
WritePost(i) ==
  /\ pc[i] = "w_post"
  /\ IF autolock[i] /\ locked(i) THEN Goto(i, call[i], "u_check")
     ELSE WriteDone(i, call[i])
  /\ UNCHANGED <<fsVars, cfgVars, dbfile, release, lockowner>>

----------------------------------------------------------------------------
\* readFromDisk (decrypt = true)

\* A readFromDisk that reads the file whether or not it is there.
ReadCheckThrowsOnMissing(i, dec) ==
  /\ Starts(i)
  /\ LET c == Cur(i, "readFromDisk", NoContent, dec) IN
       IF ~pathReadable(dbfile[i]) THEN Return(i, c, "throw_io", NoContent)
       ELSE Goto(i, c, "r_read")
  /\ UNCHANGED <<fsVars, cfgVars, dbfile, release, lockowner>>

\* A readFromDisk that refuses a locked file, as presave does.
ReadCheckRefusesLocked(i, dec) ==
  /\ Starts(i)
  /\ LET c == Cur(i, "readFromDisk", NoContent, dec) IN
       IF locked(i) THEN Return(i, c, "throw_locked", NoContent)
       ELSE IF ~pathReadable(dbfile[i]) THEN Return(i, c, "null", NoContent)
       ELSE Goto(i, c, "r_read")
  /\ UNCHANGED <<fsVars, cfgVars, dbfile, release, lockowner>>

\* if (!NGN.util.pathReadable(this.dbfile)) return null
ReadCheck(i, dec) ==
  /\ Starts(i)
  /\ LET c == Cur(i, "readFromDisk", NoContent, dec) IN
       IF ~pathReadable(dbfile[i]) THEN Return(i, c, "null", NoContent)
       ELSE Goto(i, c, "r_read")
  /\ UNCHANGED <<fsVars, cfgVars, dbfile, release, lockowner>>

\* A readFromDisk whose missing-key branch is reached when no key is configured.
ReadResultKeyRequired(i, dec, content) ==
  IF dec
  THEN IF munge[i] # NoKey
       THEN IF CanDecrypt(i, content) THEN <<"ok", decrypt(i, content)>>
            ELSE <<"throw_decrypt", NoContent>>
       ELSE <<"throw_format", NoContent>>
  ELSE <<"ok", content>>

\* A readFromDisk that returns what the file holds, decrypt or not.
ReadResultRaw(i, dec, content) == <<"ok", content>>

\* The value of readFromDisk once the file is read: <<result, content>>.
ReadResult(i, dec, content) ==
  IF dec /\ munge[i] # NoKey
  THEN IF munge[i] # NoKey
       THEN IF CanDecrypt(i, content) THEN <<"ok", decrypt(i, content)>>
            ELSE <<"throw_decrypt", NoContent>>
       ELSE <<"throw_format", NoContent>>
  ELSE <<"ok", content>>

\* content = require('fs').readFileSync(this.dbfile).toString(); ...; return content
ReadFileSync(i) ==
  /\ pc[i] = "r_read"
  /\ IF dbfile[i] \notin DOMAIN files
     THEN Return(i, call[i], "throw_io", NoContent)
     ELSE LET r == ReadResult(i, call[i].flag, files[dbfile[i]]) IN
          Return(i, call[i], r[1], r[2])
  /\ UNCHANGED <<fsVars, cfgVars, dbfile, release, lockowner>>

----------------------------------------------------------------------------
\* postfetch (callback, content)

\* What is fetched: the content readFromDisk returned, or null.
Fetched == {Plain(t) : t \in Texts} \cup {NoContent}

\* this.emit('fetch', content); this.store.emit('fetch', content); callback(content)
Postfetch(i, content) ==
  /\ Starts(i)
  /\ LET c == [NewCall(i, "postfetch", content, FALSE) EXCEPT !.carried = content.text] IN
       Return(i, Emit(Emit(Emit(c, "fetch"), "store.fetch"), "callback"), "ok", Undefined)
  /\ UNCHANGED <<fsVars, cfgVars, dbfile, release, lockowner>>

----------------------------------------------------------------------------

Contents == {Plain(t) : t \in Texts}

Init ==
  /\ os \in Platforms
  /\ target \in TargetPaths
  /\ \E exists \in {"file", "dir", "nothing"} :
       /\ files = IF exists = "file" THEN (target :> Plain(InitialText))
                  ELSE [p \in {} |-> NoContent]
       /\ dirs = IF exists = "nothing" THEN {Root} ELSE {Root, dirname(target)}
  /\ hiddenAttr = {}
  /\ readonly = FALSE
  /\ mode = Mode(6, 4, 4)
  /\ alive = [i \in Inst |-> TRUE]
  /\ age = [i \in Inst |-> 0]
  /\ lockfile = [p \in {} |-> NoInst]
  /\ dbfile = [i \in Inst |-> target]
  /\ \E k \in Keys \cup {NoKey} : munge = [i \in Inst |-> k]
  /\ cipher = [i \in Inst |-> DefaultCipher]
  /\ autolock \in [Inst -> BOOLEAN]
  /\ hidelock \in [Inst -> BOOLEAN]
  /\ release = [i \in Inst |-> NoPath]
  /\ lockowner = [i \in Inst |-> FALSE]
  /\ pc = [i \in Inst |-> "idle"]
  /\ call = [i \in Inst |-> NoCall]
  /\ done = NoCall

Next ==
  \E i \in Inst :
    \/ LockCheck(i)
    \/ LockCreate(i)
    \/ LockHide(i)
    \/ UnlockCheck(i)
    \/ UnlockRelease(i)
    \/ \E content \in Contents : SavePresave(i, content)
    \/ \E content \in Contents : WriteCheck(i, content)
    \/ WriteFileSync(i)
    \/ WritePost(i)
    \/ \E d \in BOOLEAN : ReadCheck(i, d)
    \/ ReadFileSync(i)

Spec == Init /\ [][Next]_vars

\* The instances of one process: a method runs to its end before another starts.
Solo(i) == \A j \in Inst \ {i} : pc[j] = "idle"

NextSync ==
  \E i \in Inst :
    \/ Solo(i) /\ LockCheck(i)
    \/ Solo(i) /\ LockCreate(i)
    \/ Solo(i) /\ LockHide(i)
    \/ Solo(i) /\ UnlockCheck(i)
    \/ Solo(i) /\ UnlockRelease(i)
    \/ Solo(i) /\ \E content \in Contents : SavePresave(i, content)
    \/ Solo(i) /\ \E content \in Contents : WriteCheck(i, content)
    \/ Solo(i) /\ WriteFileSync(i)
    \/ Solo(i) /\ WritePost(i)
    \/ Solo(i) /\ \E d \in BOOLEAN : ReadCheck(i, d)
    \/ Solo(i) /\ ReadFileSync(i)
    \/ Solo(i) /\ Presave(i)
    \/ Solo(i) /\ \E value \in AutolockValues : SetAutolock(i, value)
    \/ Solo(i) /\ \E content \in Fetched : Postfetch(i, content)

SpecSync == Init /\ [][NextSync]_vars

\* The framework calling the lifecycle hooks of the proxies of one process, which
\* are configured alike and without a key, next to lock(), unlock() and writeToDisk.
InitHooks ==
  /\ Init
  /\ \A i \in Inst : munge[i] = NoKey
  /\ \A i, j \in Inst : autolock[i] = autolock[j] /\ hidelock[i] = hidelock[j]

NextHooks ==
  \E i \in Inst :
    \/ Solo(i) /\ \E h \in Hooks, record \in Records, content \in Contents :
                     HookSave(i, h, record, content)
    \/ Solo(i) /\ \E h \in Hooks, record \in Records : HookSaveStub(i, h, record)
    \/ Solo(i) /\ LockCheck(i)
    \/ Solo(i) /\ LockCreate(i)
    \/ Solo(i) /\ LockHide(i)
    \/ Solo(i) /\ UnlockCheck(i)
    \/ Solo(i) /\ UnlockRelease(i)
    \/ Solo(i) /\ \E content \in Contents : WriteCheck(i, content)
    \/ Solo(i) /\ WriteFileSync(i)
    \/ Solo(i) /\ WritePost(i)

SpecHooks == InitHooks /\ [][NextHooks]_vars

\* An instance with a key, for every key and cipher, encrypts a text and then
\* decrypts what encrypt returned, as it is or without its last two digits.
InitCrypto ==
  /\ os = "linux"
  /\ target \in TargetPaths
  /\ files = [p \in {} |-> NoContent]
  /\ dirs = {Root}
  /\ hiddenAttr = {}
  /\ readonly = FALSE
  /\ mode = Mode(6, 4, 4)
  /\ alive = [i \in Inst |-> TRUE]
  /\ age = [i \in Inst |-> 0]
  /\ lockfile = [p \in {} |-> NoInst]
  /\ dbfile = [i \in Inst |-> target]
  /\ \E k \in CipherKeys : munge = [i \in Inst |-> k]
  /\ \E name \in Ciphers : cipher = [i \in Inst |-> name]
  /\ autolock = [i \in Inst |-> TRUE]
  /\ hidelock = [i \in Inst |-> TRUE]
  /\ release = [i \in Inst |-> NoPath]
  /\ lockowner = [i \in Inst |-> FALSE]
  /\ pc = [i \in Inst |-> "idle"]
  /\ call = [i \in Inst |-> NoCall]
  /\ done = NoCall

Truncated(d) == SubSeq(d, 1, Len(d) - 2)

NextCrypto ==
  \E i \in Inst :
    \/ done = NoCall /\ \E data \in TextInputs : EncryptCall(i, data)
    \/ /\ done.by = i /\ done.op = "encrypt"
       /\ \E data \in {done.value.text, Truncated(done.value.text)} : DecryptCall(i, data)

SpecCrypto == InitCrypto /\ [][NextCrypto]_vars

----------------------------------------------------------------------------
\* hide and unhide on their own, for target paths in which the base name does and
\* does not occur as an earlier part of the path.

HidePaths == { <<"/", "t", "/", "d">>, <<"/", "d", "/", "d">> }

InitHide ==
  /\ os \in Platforms
  /\ target \in HidePaths
  /\ \E exists \in {"file", "dir", "nothing"} :
       /\ files = IF exists = "file" THEN (target :> Plain(InitialText))
                  ELSE [p \in {} |-> NoContent]
       /\ dirs = IF exists = "nothing" THEN {Root} ELSE {Root, dirname(target)}
  /\ hiddenAttr = {}
  /\ readonly = FALSE
  /\ mode = Mode(6, 4, 4)
  /\ alive = [i \in Inst |-> TRUE]
  /\ age = [i \in Inst |-> 0]
  /\ lockfile = [p \in {} |-> NoInst]
  /\ dbfile = [i \in Inst |-> target]
  /\ \E k \in Keys \cup {NoKey} : munge = [i \in Inst |-> k]
  /\ cipher = [i \in Inst |-> DefaultCipher]
  /\ autolock \in [Inst -> BOOLEAN]
  /\ hidelock \in [Inst -> BOOLEAN]
  /\ release = [i \in Inst |-> NoPath]
  /\ lockowner = [i \in Inst |-> FALSE]
  /\ pc = [i \in Inst |-> "idle"]
  /\ call = [i \in Inst |-> NoCall]
  /\ done = NoCall

NextHide ==
  \E i \in Inst :
    \/ \E absolutePath \in {target, dbfile[i]} : HideCall(i, absolutePath)
    \/ \E absolutePath \in {target, dbfile[i]} : UnhideCall(i, absolutePath)

SpecHide == InitHide /\ [][NextHide]_vars

----------------------------------------------------------------------------
\* Saves of instances without a key on a file system that may refuse the write.

InitIO ==
  /\ os \in Platforms
  /\ target \in TargetPaths
  /\ \E exists \in {"file", "dir", "nothing"} :
       /\ files = IF exists = "file" THEN (target :> Plain(InitialText))
                  ELSE [p \in {} |-> NoContent]
       /\ dirs = IF exists = "nothing" THEN {Root} ELSE {Root, dirname(target)}
  /\ hiddenAttr = {}
  /\ readonly \in BOOLEAN
  /\ mode = Mode(6, 4, 4)
  /\ alive = [i \in Inst |-> TRUE]
  /\ age = [i \in Inst |-> 0]
  /\ lockfile = [p \in {} |-> NoInst]
  /\ dbfile = [i \in Inst |-> target]
  /\ munge = [i \in Inst |-> NoKey]
  /\ cipher = [i \in Inst |-> DefaultCipher]
  /\ autolock \in [Inst -> BOOLEAN]
  /\ hidelock \in [Inst -> BOOLEAN]
  /\ release = [i \in Inst |-> NoPath]
  /\ lockowner = [i \in Inst |-> FALSE]
  /\ pc = [i \in Inst |-> "idle"]
  /\ call = [i \in Inst |-> NoCall]
  /\ done = NoCall

NextIO ==
  \E i \in Inst :
    \/ Solo(i) /\ LockCheck(i)
    \/ Solo(i) /\ LockCreate(i)
    \/ Solo(i) /\ LockHide(i)
    \/ Solo(i) /\ UnlockCheck(i)
    \/ Solo(i) /\ UnlockRelease(i)
    \/ Solo(i) /\ \E content \in Contents : SavePresave(i, content)
    \/ Solo(i) /\ \E content \in Contents : WriteCheck(i, content)
    \/ Solo(i) /\ WriteFileSync(i)
    \/ Solo(i) /\ WritePost(i)
    \/ Solo(i) /\ Presave(i)

SpecIO == InitIO /\ [][NextIO]_vars

----------------------------------------------------------------------------
\* Processes that die holding a lock, and the passing of time.

\* The process of i is killed between two calls: nothing of it runs any more,
\* and exit handlers do not run either.
Die(i) ==
  /\ alive[i] /\ pc[i] = "idle"
  /\ alive' = [alive EXCEPT ![i] = FALSE]
  /\ done' = NoCall
  /\ UNCHANGED <<fsVars, os, target, munge, cipher, autolock, hidelock, readonly, mode, age,
                 dbfile, release, lockowner, pc, call>>

\* A second passes: a live process refreshes its markers every LockUpdate
\* seconds, the markers of a dead one grow older.  Ages beyond the largest
\* staleness limit are not told apart.
Tick ==
  /\ \A i \in Inst : pc[i] = "idle"
  /\ \E i \in Inst : ~alive[i] /\ age[i] <= CheckStale
  /\ age' = [i \in Inst |-> IF alive[i] THEN (age[i] + 1) % LockUpdate
                             ELSE IF age[i] <= CheckStale THEN age[i] + 1 ELSE age[i]]
  /\ done' = NoCall
  /\ UNCHANGED <<fsVars, os, target, munge, cipher, autolock, hidelock, readonly, mode,
                 alive,
                 dbfile, release, lockowner, pc, call>>

InitStale ==
  /\ os \in Platforms
  /\ target \in TargetPaths
  /\ \E exists \in {"file", "dir", "nothing"} :
       /\ files = IF exists = "file" THEN (target :> Plain(InitialText))
                  ELSE [p \in {} |-> NoContent]
       /\ dirs = IF exists = "nothing" THEN {Root} ELSE {Root, dirname(target)}
  /\ hiddenAttr = {}
  /\ readonly = FALSE
  /\ mode = Mode(6, 4, 4)
  /\ alive = [i \in Inst |-> TRUE]
  /\ age = [i \in Inst |-> 0]
  /\ lockfile = [p \in {} |-> NoInst]
  /\ dbfile = [i \in Inst |-> target]
  /\ munge = [i \in Inst |-> NoKey]
  /\ cipher = [i \in Inst |-> DefaultCipher]
  /\ autolock = [i \in Inst |-> FALSE]
  /\ \E h \in BOOLEAN : hidelock = [i \in Inst |-> h]
  /\ release = [i \in Inst |-> NoPath]
  /\ lockowner = [i \in Inst |-> FALSE]
  /\ pc = [i \in Inst |-> "idle"]
  /\ call = [i \in Inst |-> NoCall]
  /\ done = NoCall

NextStale ==
  \/ \E i \in Inst :
       \/ alive[i] /\ Solo(i) /\ LockCheck(i)
       \/ alive[i] /\ Solo(i) /\ LockCreate(i)
       \/ alive[i] /\ Solo(i) /\ LockHide(i)
       \/ alive[i] /\ Solo(i) /\ UnlockCheck(i)
       \/ alive[i] /\ Solo(i) /\ UnlockRelease(i)
       \/ alive[i] /\ Solo(i) /\ Presave(i)
       \/ Die(i)
  \/ Tick

SpecStale == InitStale /\ [][NextStale]_vars

----------------------------------------------------------------------------
\* denyWrite () and allowWrite ()

\* The numbers the code passes to chmodSync.
DenyMode == 600
AllowMode == 666

\* require('fs').chmodSync(path, mode) with a number: the bits of the number
chmod(number) == number % 4096

\* NGN.util.pathWritable, for the process that owns the file
pathWritable(p) == p \in DOMAIN files /\ (Owner(mode) \div 2) % 2 = 1

\* attrib +r and attrib -r, as the permission bits show the read-only attribute
SetReadOnly(m) == Mode(4, 4, 4)
ClearReadOnly(m) == Mode(6, 6, 6)

DenyWrite(i) ==
  /\ Starts(i)
  /\ LET c == NewCall(i, "denyWrite", NoContent, FALSE) IN
       IF ~pathWritable(dbfile[i])
       THEN mode' = mode /\ Return(i, [c EXCEPT !.param = "skip"], "ok", NoContent)
       ELSE /\ mode' = IF os = "win32" THEN SetReadOnly(mode) ELSE chmod(DenyMode)
            /\ Return(i, [c EXCEPT !.param = "changed"], "ok", NoContent)
  /\ UNCHANGED <<fsVars, os, target, munge, cipher, autolock, hidelock, readonly, alive,
                 age, dbfile, release, lockowner>>

AllowWrite(i) ==
  /\ Starts(i)
  /\ LET c == NewCall(i, "allowWrite", NoContent, FALSE) IN
       IF pathWritable(dbfile[i])
       THEN mode' = mode /\ Return(i, [c EXCEPT !.param = "skip"], "ok", NoContent)
       ELSE IF dbfile[i] \notin DOMAIN files
       THEN mode' = mode /\ Return(i, c, "throw_io", NoContent)
       ELSE /\ mode' = IF os = "win32" THEN ClearReadOnly(mode) ELSE chmod(AllowMode)
            /\ Return(i, [c EXCEPT !.param = "changed"], "ok", NoContent)
  /\ UNCHANGED <<fsVars, os, target, munge, cipher, autolock, hidelock, readonly, alive,
                 age, dbfile, release, lockowner>>

\* The permission bits a target file may have when the instance is constructed.
FileModes == {Mode(6, 4, 4), Mode(6, 6, 6), Mode(6, 0, 0), Mode(4, 4, 4), Mode(4, 0, 0)}

InitMode ==
  /\ os \in Platforms
  /\ target \in TargetPaths
  /\ \E exists \in {"file", "dir", "nothing"} :
       /\ files = IF exists = "file" THEN (target :> Plain(InitialText))
                  ELSE [p \in {} |-> NoContent]
       /\ dirs = IF exists = "nothing" THEN {Root} ELSE {Root, dirname(target)}
  /\ hiddenAttr = {}
  /\ readonly = FALSE
  /\ mode \in FileModes
  /\ alive = [i \in Inst |-> TRUE]
  /\ age = [i \in Inst |-> 0]
  /\ lockfile = [p \in {} |-> NoInst]
  /\ dbfile = [i \in Inst |-> target]
  /\ \E k \in Keys \cup {NoKey} : munge = [i \in Inst |-> k]
  /\ cipher = [i \in Inst |-> DefaultCipher]
  /\ autolock \in [Inst -> BOOLEAN]
  /\ hidelock \in [Inst -> BOOLEAN]
  /\ release = [i \in Inst |-> NoPath]
  /\ lockowner = [i \in Inst |-> FALSE]
  /\ pc = [i \in Inst |-> "idle"]
  /\ call = [i \in Inst |-> NoCall]
  /\ done = NoCall

NextMode ==
  \E i \in Inst :
    \/ DenyWrite(i)
    \/ AllowWrite(i)

SpecMode == InitMode /\ [][NextMode]_vars


----------------------------------------------------------------------------
\* Properties.

Markers(i) == {p \in DOMAIN lockfile : lockfile[p] = i}
HoldsTarget(i) == target \in DOMAIN lockfile /\ lockfile[target] = i

\* C1: while another instance holds the lock of the target path, the presave of a
\* save throws, the save goes no further (no write is attempted) and the files
\* are as they were.
C1_ContendedSaveFails ==
  [][\A i \in Inst :
       ( /\ \E j \in Inst \ {i} : HoldsTarget(j)
         /\ \E content \in Contents : SavePresave(i, content) )
       => ( /\ done'.by = i /\ done'.res = "throw_locked"
            /\ pc'[i] = "idle"
            /\ Count(done'.events, "write") = 0
            /\ files' = files )]_vars

C1_Witness ==
  /\ done.op = "save" /\ done.res = "throw_locked"
  /\ \E j \in Inst \ {done.by} : HoldsTarget(j)

\* C2: an instance writes the target file only while it holds the lock itself, and
\* never while another instance holds it.  Stated for the writes of instances with
\* autolock enabled, which are to take the lock themselves.
C2_WriteOnlyWhileHoldingLock ==
  [][\A i \in Inst :
       (autolock[i] /\ WriteFileSync(i) /\ pc'[i] = "w_post")
       => ( /\ release[i] # NoPath /\ release[i] \in Markers(i)
            /\ \A j \in Inst \ {i} : Markers(j) = {} )]_vars

\* C3: when writeToDisk with autolock acquired the lock and has returned, no marker
\* it created remains and no other instance sees the file locked.
C3_AutolockReleasedAfterWrite ==
  ( /\ done.op \in {"writeToDisk", "save"} /\ done.res = "ok"
    /\ autolock[done.by] /\ done.acquired )
  => ( /\ Markers(done.by) = {}
       /\ \A j \in Inst \ {done.by} : ~locked(j) )

\* C4: unlock() by an instance that did not create the marker of its locked file
\* leaves the markers in place, invokes no release capability, changes no field of
\* the instance and emits no 'fileunlock'.
C4_NonOwnerUnlockIsNoOp ==
  [][\A i \in Inst :
       (UnlockCheck(i) /\ locked(i) /\ lockfile[dbfile[i]] # i)
       => ( /\ lockfile' = lockfile
            /\ locked(i)'
            /\ pc'[i] # "u_release"
            /\ release'[i] = release[i] /\ lockowner'[i] = lockowner[i]
            /\ dbfile'[i] = dbfile[i] /\ autolock'[i] = autolock[i]
            /\ (done'.by = i => Count(done'.events, "fileunlock") = 0) )]_vars

C4_Witness ==
  /\ done.op = "unlock" /\ done.events = <<"warn">>
  /\ locked(done.by) /\ lockfile[dbfile[done.by]] # done.by

\* C5: isLockOwner is true exactly when the instance created a marker that exists
\* and has not released it.
C5_LockOwnerIffHoldsMarker ==
  \A i \in Inst : isLockOwner(i) <=> Markers(i) # {}

\* C6: right after an unlock() that follows the lock() in which the instance
\* acquired the lock, no instance sees the file locked (so that a lock() by
\* another instance can acquire it).
C6_UnlockedAfterLockUnlock ==
  (done.op = "unlock" /\ done.after = "lock")
  => \A j \in Inst : ~locked(j) /\ Markers(j) = {}

\* C7: a second lock() right after the lock() that acquired the lock leaves locked
\* and isLockOwner true and exactly one marker, and does nothing again: no marker
\* created, no hide, no 'filelock'.
C7_LockIdempotent ==
  (done.op = "lock" /\ done.after = "lock")
  => ( /\ done.res = "ok"
       /\ locked(done.by) /\ isLockOwner(done.by)
       /\ Cardinality(Markers(done.by)) = 1
       /\ ~done.acquired
       /\ Count(done.events, "hide") = 0
       /\ Count(done.events, "filelock") = 0 )

\* C8: after a lock() that started without a target file and acquired the lock,
\* the target file and its marker exist and locked is true.
C8_LockCreatesFile ==
  (done.op = "lock" /\ done.res = "ok" /\ ~done.fileBefore /\ done.acquired)
  => ( /\ dbfile[done.by] \in DOMAIN files
       /\ Markers(done.by) # {}
       /\ locked(done.by) )

\* C9: after every unlock(), whatever its outcome, _release is null.
C9_ReleaseClearedAfterUnlock ==
  done.op = "unlock" => release[done.by] = NoPath

\* C10 as claimed: readFromDisk(decrypt = true) on an existing file raises an
\* error when no key is configured and never returns the raw content.
C10_NoKeyDecryptThrows ==
  ( /\ done.op = "readFromDisk" /\ done.flag /\ munge[done.by] = NoKey
    /\ done.res # "null" )
  => done.res \in {"throw_format", "throw_io", "throw_decrypt"}

\* C10 as amended: readFromDisk(decrypt = true) with no key configured raises no
\* error on account of the missing key: once the file is read it returns the raw
\* file content.
C10_NoKeyDecryptReturnsRaw ==
  ( /\ done.op = "readFromDisk" /\ done.flag /\ munge[done.by] = NoKey
    /\ done.res \notin {"null", "throw_io"} )
  => ( /\ done.res = "ok"
       /\ dbfile[done.by] \in DOMAIN files
       /\ done.value = files[dbfile[done.by]] )

C10_Witness ==
  /\ done.op = "readFromDisk" /\ done.flag /\ munge[done.by] = NoKey
  /\ done.res = "ok" /\ done.value = Plain(InitialText)

\* C11: a readFromDisk that finds no readable file at this.dbfile returns null at
\* once, for either decrypt argument and with or without a key: it raises nothing
\* and changes neither the files, the markers nor a field of the instance.
C11_ReadMissingReturnsNull ==
  [][\A i \in Inst, d \in BOOLEAN :
       (ReadCheck(i, d) /\ ~pathReadable(dbfile[i]))
       => ( /\ done'.by = i /\ done'.op = "readFromDisk" /\ done'.flag = d
            /\ done'.res = "null" /\ done'.value = NoContent
            /\ pc'[i] = "idle"
            /\ UNCHANGED <<fsVars, cfgVars, dbfile, release, lockowner>> )]_vars

C11_Witness ==
  /\ done.op = "readFromDisk" /\ done.res = "null" /\ done.flag
  /\ munge[done.by] # NoKey /\ ~pathReadable(dbfile[done.by])

\* C12: a readFromDisk() that directly follows a writeToDisk(c) of the same
\* instance returns c, and the file of the instance holds c, encrypted when a key
\* is configured, and nothing else.
C12_WriteThenReadReturnsContent ==
  (done.op = "readFromDisk" /\ done.flag /\ done.after = "write")
  => ( /\ done.res = "ok" /\ done.value = done.arg
       /\ dbfile[done.by] \in DOMAIN files
       /\ files[dbfile[done.by]] = IF munge[done.by] # NoKey
                                   THEN encrypt(done.by, done.arg) ELSE done.arg )

C12_Witness ==
  /\ done.op = "readFromDisk" /\ done.flag /\ done.after = "write"
  /\ done.value = done.arg /\ munge[done.by] # NoKey
  /\ autolock[done.by] /\ hidelock[done.by] /\ os = "linux"

\* C14: the write step of writeToDisk(c) stores encrypt(c), which is not c, when a
\* key is configured and c itself when none is; a readFromDisk() that returns with
\* a key configured returns decrypt of what the file holds.
C14_StoredContentIsEncrypted ==
  [][\A i \in Inst :
       /\ (WriteFileSync(i) /\ pc'[i] = "w_post")
          => ( /\ dbfile[i] \in DOMAIN files'
               /\ IF munge[i] # NoKey
                  THEN /\ files'[dbfile[i]] = encrypt(i, call[i].arg)
                       /\ files'[dbfile[i]] # call[i].arg
                  ELSE files'[dbfile[i]] = call[i].arg )
       /\ (ReadFileSync(i) /\ done'.res = "ok" /\ done'.flag /\ munge[i] # NoKey)
          => done'.value = decrypt(i, files[dbfile[i]])]_vars

C14_Witness ==
  \E i \in Inst :
    /\ pc[i] = "w_post" /\ munge[i] # NoKey /\ dbfile[i] \in DOMAIN files
    /\ files[dbfile[i]] = encrypt(i, call[i].arg)

\* C15: no step of a writeToDisk of an instance with autolock false creates or
\* removes a marker, changes _lockowner or _release, or enters lock() or unlock(),
\* whoever holds the lock.
C15_NoAutolockNoLocking ==
  [][\A i \in Inst :
       ( /\ ~autolock[i]
         /\ \/ \E content \in Contents : WriteCheck(i, content)
            \/ WriteFileSync(i)
            \/ WritePost(i) )
       => ( /\ lockfile' = lockfile
            /\ lockowner'[i] = lockowner[i] /\ release'[i] = release[i]
            /\ locked(i)' = locked(i)
            /\ pc'[i] \in {"w_write", "w_post", "idle"}
            /\ (done'.by = i => /\ ~done'.acquired
                                /\ Count(done'.events, "filelock") = 0
                                /\ Count(done'.events, "fileunlock") = 0) )]_vars

C15_Witness ==
  /\ done.op = "writeToDisk" /\ done.res = "ok" /\ ~autolock[done.by]
  /\ locked(done.by) /\ lockfile[dbfile[done.by]] # done.by

\* C20: when lockSync throws in lock(), because the marker exists by now or the
\* directory is missing, the call that reached it (lock, writeToDisk or a save)
\* ends with that error: nothing is written, no 'filelock' is emitted and the
\* markers, _lockowner, _release and this.dbfile are as before.
C20_LockFailurePropagates ==
  [][\A i \in Inst :
       ( /\ LockCreate(i)
         /\ dbfile[i] \in DOMAIN lockfile \/ dirname(dbfile[i]) \notin dirs )
       => ( /\ done'.by = i /\ done'.res = "throw_lock" /\ pc'[i] = "idle"
            /\ files' = files /\ lockfile' = lockfile
            /\ lockowner'[i] = lockowner[i] /\ release'[i] = release[i]
            /\ dbfile'[i] = dbfile[i]
            /\ Count(done'.events, "write") = 0
            /\ Count(done'.events, "filelock") = 0 )]_vars

C20_Witness ==
  /\ done.op = "writeToDisk" /\ done.res = "throw_lock"
  /\ lockfile # << >> /\ dirname(dbfile[done.by]) \in dirs

\* C16: on an instance that holds no lock, with no marker anywhere, locked and
\* isLockOwner are false and presave() returns true without throwing.
C16_FreshPresaveReturnsTrue ==
  ( /\ done.op = "presave" /\ lockfile = << >>
    /\ ~lockowner[done.by] /\ release[done.by] = NoPath )
  => ( /\ ~locked(done.by) /\ ~isLockOwner(done.by)
       /\ done.res = "ok" /\ done.value = True )

\* C17: a save with autolock that returns did, in this order, presave, 'filelock',
\* the write, the release, 'save' on the proxy, 'save' on the store, the callback;
\* a save that did not return emitted no 'save'.
C17_SaveStepOrder ==
  (done.op = "save" /\ autolock[done.by])
  => IF done.res = "ok"
     THEN SelectSeq(done.events, LAMBDA e : e \notin {"hide", "fileunlock"})
          = <<"presave", "filelock", "write", "release", "save", "store.save", "callback">>
     ELSE Count(done.events, "save") = 0 /\ Count(done.events, "store.save") = 0

\* C18: a lifecycle hook calls save once; when that save called its callback, the
\* intent of the hook was emitted once on the proxy and once on the store, after
\* the callback was called, carrying the record or null; when it did not, no
\* intent was emitted.
C18_HookSavesThenEmitsIntent ==
  done.op \in Hooks
  => LET ev == done.events
         n == Len(ev)
         intent == eventName(done.op)
     IN /\ Count(ev, "this.save") = 1
        /\ \A h \in Hooks :
             eventName(h) # intent =>
               Count(ev, eventName(h)) = 0 /\ Count(ev, StoreEvent(eventName(h))) = 0
        /\ IF Count(ev, "callback") = 1
           THEN /\ done.res = "ok"
                /\ Count(ev, intent) = 1 /\ Count(ev, StoreEvent(intent)) = 1
                /\ SubSeq(ev, n - 2, n) = <<"callback", intent, StoreEvent(intent)>>
                /\ done.carried = IF done.param = "record" THEN "record" ELSE "null"
           ELSE /\ Count(ev, "callback") = 0
                /\ Count(ev, intent) = 0 /\ Count(ev, StoreEvent(intent)) = 0
                /\ done.carried = "none"

C18_Witness ==
  /\ done.op = "clearStoreRecords" /\ done.res = "ok" /\ done.param = "undefined"
  /\ done.carried = "null" /\ Count(done.events, "store.live.delete") = 1

\* C19: after an assignment to autolock, which raises nothing, autolock is the
\* assigned value when that is a boolean and what it was otherwise.
C19_AutolockAssignment ==
  [][\A i \in Inst, value \in AutolockValues :
       SetAutolock(i, value)
       => ( /\ done'.res = "ok"
            /\ autolock'[i] = IF value \in {"true", "false"} THEN (value = "true")
                              ELSE autolock[i] )]_vars

\* C13: for every key, cipher and text x, decrypt given what encrypt returned for
\* x returns x.
C13_DecryptEncryptRoundTrip ==
  \A x \in TextInputs :
    (done.op = "decrypt" /\ done.arg = Plain(encryptText(done.by, x)))
    => (done.res = "ok" /\ done.value = Plain(x))

C13_Witness ==
  /\ done.op = "decrypt" /\ done.res = "ok" /\ cipher[done.by] = "des-ede3-cbc"
  /\ done.value = Plain(<<8364, 233, 8364>>)
  /\ done.arg = Plain(encryptText(done.by, <<8364, 233, 8364>>))

\* C21: no step of readFromDisk or postfetch looks at or changes the lock: the
\* markers, _lockowner, _release and the files stay as they are, the call never
\* ends with a lock error whoever holds the lock, and postfetch emits 'fetch' with
\* the content on the proxy and on the store.
C21_FetchNeedsNoLock ==
  [][\A i \in Inst :
       ( \/ \E d \in BOOLEAN : ReadCheck(i, d)
         \/ ReadFileSync(i)
         \/ \E content \in Fetched : Postfetch(i, content) )
       => ( /\ lockfile' = lockfile /\ files' = files
            /\ lockowner' = lockowner /\ release' = release /\ dbfile' = dbfile
            /\ pc'[i] \in {"idle", "r_read"}
            /\ (done'.by = i =>
                  /\ done'.res \in {"ok", "null", "throw_decrypt"}
                  /\ (done'.res = "null" =>
                        done'.op = "readFromDisk" /\ ~pathReadable(dbfile[i]))
                  /\ (done'.res = "throw_decrypt" =>
                        munge[i] # NoKey /\ ~CanDecrypt(i, files[dbfile[i]]))
                  /\ (done'.op = "postfetch" =>
                        /\ done'.res = "ok"
                        /\ done'.events = <<"fetch", "store.fetch", "callback">>
                        /\ done'.carried = done'.arg.text)) )]_vars

C21_Witness ==
  /\ done.op = "readFromDisk" /\ done.res = "ok"
  /\ locked(done.by) /\ lockfile[dbfile[done.by]] # done.by

\* C22: on an OS that hides by renaming, once an unlock() or a writeToDisk with
\* autolock of an instance with hideLockedFile has returned, the file is under
\* its original name again and this.dbfile is the path of the constructor.
C22_UnhiddenAfterUnlock ==
  ( /\ done.by \in Inst /\ os = "linux" /\ hidelock[done.by] /\ done.res = "ok"
    /\ \/ done.op = "unlock"
       \/ done.op = "writeToDisk" /\ autolock[done.by] )
  => ( /\ dbfile[done.by] = target
       /\ \A p \in DOMAIN files : SubSeq(basename(p), 1, 1) # <<".">> )

\* C25: an instance that holds a release capability whose marker exists sees its
\* file locked, on every OS.
C25_HolderSeesLocked ==
  \A i \in Inst :
    (pc[i] = "idle" /\ release[i] # NoPath /\ release[i] \in Markers(i)) => locked(i)

\* C26: every marker an instance created and has not released is the one its
\* release capability refers to, so it has at most one.
C26_ReleaseReachesEveryMarker ==
  \A i \in Inst : \A p \in Markers(i) : release[i] = p

\* C28: presave throws the contention error only when another instance holds the
\* lock: never under the instance's own lock.
C28_OwnLockNoContention ==
  (done.op \in {"presave", "save"} /\ done.res = "throw_locked")
  => lockfile[dbfile[done.by]] # done.by

\* C29: at most one of the instances of the target path has isLockOwner true.
C29_OneLockOwner ==
  Cardinality({i \in Inst : isLockOwner(i)}) <= 1

\* C30: a readFromDisk() of an instance right after the writeToDisk(c) of another
\* instance with the same path, key and cipher returns c.
C30_OtherInstanceReadsWritten ==
  (done.op = "readFromDisk" /\ done.flag /\ done.after = "write_other")
  => (done.res = "ok" /\ done.value = done.arg)

\* dirname(p) + '/' + '.' + basename(p), and the same without the dot.
DotPath(p) ==
  (IF dirname(p) = Root THEN Root ELSE dirname(p) \o <<"/">>) \o <<".">> \o basename(p)

UndotPath(p) ==
  (IF dirname(p) = Root THEN Root ELSE dirname(p) \o <<"/">>) \o Tail(basename(p))

\* C23: on an OS that hides by renaming, hide() of the existing file of the
\* instance whose base name has no leading dot renames it to '.' + base name in
\* the same directory and stores that path, for every path; unhide() of a file
\* with a leading dot does the inverse.
C23_HideRenamesWithinDirectory ==
  [][\A i \in Inst :
       /\ ( /\ HideCall(i, dbfile[i])
            /\ os = "linux" /\ dbfile[i] \in DOMAIN files
            /\ SubSeq(basename(dbfile[i]), 1, 1) # <<".">> )
          => ( /\ dbfile'[i] = DotPath(dbfile[i])
               /\ files' = RenameFile(files, dbfile[i], DotPath(dbfile[i])) )
       /\ ( /\ UnhideCall(i, dbfile[i])
            /\ os = "linux" /\ dbfile[i] \in DOMAIN files
            /\ SubSeq(basename(dbfile[i]), 1, 1) = <<".">> )
          => ( /\ dbfile'[i] = UndotPath(dbfile[i])
               /\ files' = RenameFile(files, dbfile[i], UndotPath(dbfile[i])) )]_vars

\* C27: when the file write of a writeToDisk that acquired the lock itself fails
\* with an I/O error, the error reaches the caller and the lock is released: no
\* marker of the instance is left and its locked is false.
C27_FailedWriteReleasesLock ==
  (done.op \in {"writeToDisk", "save"} /\ done.res = "throw_io" /\ done.acquired)
  => (Markers(done.by) = {} /\ ~locked(done.by))

\* C24: once the markers of a dead process are older than the staleness limit of
\* lock() (5 seconds), presave() of another instance on the path does not throw
\* and its lock() goes on to lockSync, which acquires and makes it the lock
\* owner; the markers of a live process are never stale.
C24_StaleLockIsTakenOver ==
  [][\A i \in Inst :
       /\ ( /\ dbfile[i] \in DOMAIN lockfile
            /\ ~alive[lockfile[dbfile[i]]] /\ Stale(dbfile[i], LockStale) )
          => ( /\ Presave(i) => done'.res = "ok"
               /\ (Starts(i) /\ LockCheck(i)) => pc'[i] = "l_create"
               /\ LockCreate(i) => (lockfile'[dbfile[i]] = i /\ isLockOwner(i)') )
       /\ \A p \in DOMAIN lockfile : alive[lockfile[p]] => ~Stale(p, LockStale)]_vars

\* C31: on an OS other than win32, denyWrite() on a writable target file leaves
\* it with read and write for the owner and nothing for group and others (0600),
\* and allowWrite() on an existing target file that is not writable leaves it
\* with read and write for owner, group and others (0666).
C31_ChmodNumerals ==
  [][\A i \in Inst :
       /\ (DenyWrite(i) /\ os # "win32" /\ pathWritable(dbfile[i]))
          => ( /\ Special(mode') = 0 /\ Owner(mode') = 6
               /\ Group(mode') = 0 /\ Other(mode') = 0 )
       /\ ( /\ AllowWrite(i) /\ os # "win32"
            /\ dbfile[i] \in DOMAIN files /\ ~pathWritable(dbfile[i]) )
          => ( /\ Special(mode') = 0 /\ Owner(mode') = 6
               /\ Group(mode') = 6 /\ Other(mode') = 6 )]_vars

====
